---------------------------- MODULE Spec2Model ----------------------------
(***************************************************************************)
(* A model of usbwatch.py: discovery of the USB topology (device           *)
(* enumeration, hub expansion, serial-port matching), the control calls    *)
(* soft_reset and set_feature, the location parser, the port-status        *)
(* decoder, and the INDI front end's handling of property writes.          *)
(*                                                                         *)
(* Python values are modelled as follows.  A str is a sequence of          *)
(* one-character strings.  A dict is a function whose DOMAIN is the set    *)
(* of keys present, so "'dev' in d" is "dev" \in DOMAIN d.  None is the    *)
(* string "None".  A raised exception is a result record whose exc field   *)
(* names the exception class.                                              *)
(***************************************************************************)
EXTENDS Integers, Sequences, FiniteSets, TLC

(***************************************************************************)
(* Bounds of the model.                                                    *)
(***************************************************************************)
\* longest location text given to parse_location in SpecParse
MaxLen == 5
\* largest bNbrPorts a hub descriptor read returns
MaxPorts == 2
\* most devices one enumeration pass reports
MaxDevs == 2

(***************************************************************************)
(* Program constants.                                                      *)
(***************************************************************************)
USB_CLASS_HUB == 9
USB_PORT_STAT_CONNECTION == 1
USB_PORT_STAT_ENABLE == 2
USB_PORT_STAT_SUSPEND == 4
USB_PORT_STAT_RESET == 16
USB_PORT_STAT_POWER == 256
USB_PORT_STAT_POWER_SS == 512
USB_PORT_FEAT_ENABLE == 1
USB_PORT_FEAT_RESET == 4
USB_PORT_FEAT_POWER == 8

None == "None"

(***************************************************************************)
(* str helpers: the str methods parse_location and describe_ports use.     *)
(***************************************************************************)
Digits == {"0", "1", "2", "3", "4", "5", "6", "7", "8", "9"}

DigitVal(c) ==
    CASE c = "0" -> 0 [] c = "1" -> 1 [] c = "2" -> 2 [] c = "3" -> 3
      [] c = "4" -> 4 [] c = "5" -> 5 [] c = "6" -> 6 [] c = "7" -> 7
      [] c = "8" -> 8 [] c = "9" -> 9

DigitChar(n) ==
    CASE n = 0 -> "0" [] n = 1 -> "1" [] n = 2 -> "2" [] n = 3 -> "3"
      [] n = 4 -> "4" [] n = 5 -> "5" [] n = 6 -> "6" [] n = 7 -> "7"
      [] n = 8 -> "8" [] n = 9 -> "9"

\* str.strip(): whitespace removed from both ends
RECURSIVE lstrip(_)
lstrip(s) == IF s # <<>> /\ Head(s) = " " THEN lstrip(Tail(s)) ELSE s

RECURSIVE rstrip(_)
rstrip(s) ==
    IF s # <<>> /\ s[Len(s)] = " " THEN rstrip(SubSeq(s, 1, Len(s) - 1)) ELSE s

strip(s) == lstrip(rstrip(s))

\* index of the first occurrence of character c in s, 0 when there is none
IndexOf(s, c) ==
    IF \E i \in 1..Len(s) : s[i] = c
    THEN CHOOSE i \in 1..Len(s) : s[i] = c /\ \A j \in 1..(i - 1) : s[j] # c
    ELSE 0

\* str.split(c): the segments between the occurrences of c, at least one
RECURSIVE split(_, _)
split(s, c) ==
    LET i == IndexOf(s, c)
    IN  IF i = 0 THEN <<s>>
        ELSE <<SubSeq(s, 1, i - 1)>> \o split(SubSeq(s, i + 1, Len(s)), c)

\* str.partition(c): <<head, separator, tail>> around the first occurrence
partition(s, c) ==
    LET i == IndexOf(s, c)
    IN  IF i = 0 THEN <<s, <<>>, <<>>>>
        ELSE <<SubSeq(s, 1, i - 1), <<c>>, SubSeq(s, i + 1, Len(s))>>

\* str.split(): the whitespace-separated words; only the first is used
first_word(s) == split(lstrip(s), " ")[1]

\* int(s) succeeds: optional surrounding whitespace, optional sign, digits
int_body(s) ==
    LET t == strip(s)
    IN  IF t # <<>> /\ t[1] \in {"+", "-"} THEN Tail(t) ELSE t

int_ok(s) ==
    /\ int_body(s) # <<>>
    /\ \A i \in 1..Len(int_body(s)) : int_body(s)[i] \in Digits

RECURSIVE digits_val(_)
digits_val(s) ==
    IF s = <<>> THEN 0
    ELSE 10 * digits_val(SubSeq(s, 1, Len(s) - 1)) + DigitVal(s[Len(s)])

int_val(s) ==
    LET t == strip(s)
    IN  IF t # <<>> /\ t[1] = "-" THEN 0 - digits_val(int_body(s))
        ELSE digits_val(int_body(s))

\* str(n) for n >= 0
RECURSIVE str_int(_)
str_int(n) ==
    IF n < 10 THEN <<DigitChar(n)>>
    ELSE str_int(n \div 10) \o <<DigitChar(n % 10)>>

\* f'{n:02d}' for n >= 0
fmt02(n) == IF n < 10 THEN <<"0">> \o str_int(n) ELSE str_int(n)

\* '.'.join(parts)
RECURSIVE join_dot(_)
join_dot(parts) ==
    IF parts = <<>> THEN <<>>
    ELSE IF Len(parts) = 1 THEN parts[1]
    ELSE parts[1] \o <<".">> \o join_dot(Tail(parts))

(***************************************************************************)
(* parse_location: the result is [exc, value]; exc is "ValueError" when    *)
(* one of the int() conversions raises.                                    *)
(***************************************************************************)
parse_location(text) ==
    LET location     == split(strip(text), ":")[1]
        p            == partition(location, "-")
        bus          == p[1]
        port_numbers == split(p[3], ".")
    IN  IF ~int_ok(bus) THEN [exc |-> "ValueError", value |-> <<>>]
        ELSE IF \E i \in 1..Len(port_numbers) : ~int_ok(port_numbers[i])
        THEN [exc |-> "ValueError", value |-> <<>>]
        ELSE [exc   |-> None,
              value |-> <<int_val(bus)>> \o
                        [i \in 1..Len(port_numbers) |-> int_val(port_numbers[i])]]

\* the address column of describe_ports
format_address(location) ==
    LET address      == str_int(location[1])
        port_numbers == join_dot([i \in 1..(Len(location) - 1) |->
                                     fmt02(location[i + 1])])
    IN  IF port_numbers # <<>> THEN address \o <<"-">> \o port_numbers
        ELSE address

(***************************************************************************)
(* usb_hub_port_status: decoding of wPortStatus.                           *)
(***************************************************************************)
\* Python's & on non-negative integers
RECURSIVE BitAnd(_, _)
BitAnd(a, b) ==
    IF a = 0 \/ b = 0 THEN 0
    ELSE (a % 2) * (b % 2) + 2 * BitAnd(a \div 2, b \div 2)

Flag(cond, c) == IF cond THEN <<c>> ELSE <<>>

decode_power_bit8_only(port_status, usb_level) ==
       Flag(BitAnd(port_status, USB_PORT_STAT_POWER) # 0, "P")
    \o Flag(BitAnd(port_status, USB_PORT_STAT_CONNECTION) # 0, "C")
    \o Flag(BitAnd(port_status, USB_PORT_STAT_ENABLE) # 0, "E")
    \o Flag(BitAnd(port_status, USB_PORT_STAT_RESET) # 0, "R")
    \o Flag(BitAnd(port_status, USB_PORT_STAT_SUSPEND) # 0, "S")

decode_port_status(port_status, usb_level) ==
       Flag(usb_level <= 2 /\ BitAnd(port_status, USB_PORT_STAT_POWER) # 0, "P")
    \o Flag(usb_level = 3 /\ BitAnd(port_status, USB_PORT_STAT_POWER_SS) # 0, "P")
    \o Flag(BitAnd(port_status, USB_PORT_STAT_CONNECTION) # 0, "C")
    \o Flag(BitAnd(port_status, USB_PORT_STAT_ENABLE) # 0, "E")
    \o Flag(BitAnd(port_status, USB_PORT_STAT_RESET) # 0, "R")
    \o Flag(BitAnd(port_status, USB_PORT_STAT_SUSPEND) # 0, "S")


(***************************************************************************)
(* State.                                                                  *)
(***************************************************************************)
VARIABLES
    attached,   \* the devices plugged in: what usb.core.find can report
    call,       \* the core call in progress: [fn, location, feature, value]
    pc,         \* the position of the call in progress
    ports,      \* list_usbports' local list of port dicts
    nsnap,      \* update_hubs: length of the snapshot list(ports)
    idx,        \* update_hubs: index of d in the snapshot
    numports,   \* update_hubs: the port count read for the hub being expanded
    portnum,    \* update_hubs: the port loop variable
    fds,        \* the control nodes that are open now
    opened,     \* the control nodes opened so far by the call in progress
    requests,   \* the reset/feature requests issued by the call in progress
    faults,     \* the failures the environment injected into the call so far
    result,     \* what the last completed call returned or raised
    text,       \* SpecParse: the argument of parse_location
    parsed,     \* SpecParse: its result
    word,       \* SpecDecode: wPortStatus
    level,      \* SpecDecode: usb_level
    flags,      \* SpecDecode: the decoded flags
    indi,       \* SpecIndi: the Indiserver object and where its loop stands
    socklist,   \* SpecIndi: the client connections, in the order accepted
    published,  \* SpecIndi: the documents sent for the event being handled
    handled,    \* SpecIndi: the event the loop handles, as the client put it
    docs,       \* SpecFraming: the documents a client sends, in order
    stream,     \* SpecFraming: the text of them that has not arrived yet
    readbuf,    \* SpecFraming: self._readbuf[s], the lines kept for the client
    delivered   \* SpecFraming: the roots handed to on_message, in order

vars == <<attached, call, pc, ports, nsnap, idx, numports, portnum, fds,
          opened, requests, faults, result, text, parsed, word, level, flags,
          indi, socklist, published, handled, docs, stream, readbuf,
          delivered>>

coreVars == <<attached, call, pc, ports, nsnap, idx, numports, portnum, fds,
              opened, requests, faults, result>>
parseVars == <<text, parsed>>
decodeVars == <<word, level, flags>>
indiVars == <<indi, socklist, published, handled>>
framingVars == <<docs, stream, readbuf, delivered>>
\* what a step of the core leaves alone
restVars == <<text, parsed, word, level, flags, indi, socklist, published,
              handled, docs, stream, readbuf, delivered>>

(***************************************************************************)
(* The environment: the hardware and what its reads can answer.            *)
(***************************************************************************)
\* most failures (raised reads, failed opens and ioctls) injected per call
MaxFaults == 1

\* A usb.core.Device: bus, address, port_numbers (None and () are both <<>>,
\* as "dev.port_numbers or ()" makes them), bcdUSB, bDeviceClass, and the
\* string descriptors the device carries (None: index 0, no such string).
Device(bus, address, port_numbers, bcdUSB, class, strs) ==
    [bus |-> bus, address |-> address, port_numbers |-> port_numbers,
     bcdUSB |-> bcdUSB, bDeviceClass |-> class,
     idVendor |-> 7531 + bus, idProduct |-> address,
     manufacturer |-> strs[1], product |-> strs[2], serial_number |-> strs[3]]

\* The bench: a USB 2 root hub with an external hub on its port 1 and a
\* serial adapter behind that hub, and a USB 3 root hub with nothing on it.
Bench ==
    { Device(1, 1, <<>>,     512, USB_CLASS_HUB, <<"Linux", "xhci", "0000">>),
      Device(1, 2, <<1>>,    528, USB_CLASS_HUB, <<None, None, None>>),
      Device(1, 3, <<1, 1>>, 512, 0,             <<None, "uart", "A1">>),
      Device(2, 1, <<>>,     768, USB_CLASS_HUB, <<None, None, None>>) }

\* The wPortStatus word a GET_STATUS read of a port of hub dev returns:
\* the port is powered, and connected and enabled when a device hangs on it.
\* Power is bit 8 on a USB 2 hub and bit 9 on a USB 3 hub.
PortWord(dev, port) ==
    LET power    == IF dev.bcdUSB \div 256 >= 3 THEN 512 ELSE 256
        occupied == \E e \in attached :
                       /\ e.bus = dev.bus
                       /\ e.port_numbers = Append(dev.port_numbers, port)
    IN  IF occupied THEN power + 3 ELSE power

DevLocation(dev) == <<dev.bus>> \o dev.port_numbers

\* A hub has at least as many ports as the highest port a device hangs on.
MinPorts(dev) ==
    LET used == { d.port_numbers[Len(d.port_numbers)] :
                    d \in { e \in attached :
                              /\ e.bus = dev.bus
                              /\ Len(e.port_numbers) = Len(dev.port_numbers) + 1
                              /\ SubSeq(e.port_numbers, 1, Len(dev.port_numbers))
                                   = dev.port_numbers } }
    IN  IF used = {} THEN 0 ELSE CHOOSE m \in used : \A k \in used : k <= m

\* the serial ports list_ports.comports() can report
ComPort(name, location, usb) == [name |-> name, location |-> location, usb |-> usb]

SerialLists ==
    { <<>>,
      <<ComPort("ttyS0", <<>>, FALSE),
        ComPort("ttyUSB0", <<"1", "-", "1", ".", "1", ":", "1", ".", "0">>, TRUE),
        ComPort("ttyUSB1", <<"1", "-", "1", ".", "1", ":", "1", ".", "1">>, TRUE)>> }

\* the location arguments the front ends pass to soft_reset and set_feature
LocTexts ==
    { <<"1">>,
      <<"1", "-", "1">>,
      <<"1", "-", "0", "1", ".", "0", "1">>,
      <<"1", "-", "1", ".", "2">>,
      <<"1", "-", "2", ":", "1", ".", "0">>,
      <<"2", "-", "1">>,
      <<"1", "-", "3">>,
      <<"x">> }

\* the (feature, value) pairs the front ends pass to set_feature
FeatureArgs ==
    { <<USB_PORT_FEAT_RESET, 1>>, <<USB_PORT_FEAT_ENABLE, 0>>,
      <<USB_PORT_FEAT_POWER, 1>>, <<USB_PORT_FEAT_POWER, 0>> }

(***************************************************************************)
(* Helpers of the core.                                                    *)
(***************************************************************************)
\* d[key] = v on a dict
Put(d, key, v) == [k \in DOMAIN d \cup {key} |-> IF k = key THEN v ELSE d[k]]

\* find(data, 'location', value): index of the first match, 0 for None
find(data, value) ==
    IF \E i \in 1..Len(data) : data[i].location = value
    THEN CHOOSE i \in 1..Len(data) :
            /\ data[i].location = value
            /\ \A j \in 1..(i - 1) : data[j].location # value
    ELSE 0

usb_filename(dev) == <<dev.bus, dev.address>>

NoCall == [fn |-> "none", location |-> <<>>, feature |-> 0, value |-> 0]
NoResult == [exc |-> "pending", msg |-> "", value |-> <<>>]
Raised(exc, msg) == [exc |-> exc, msg |-> msg, value |-> <<>>]
Returned(value) == [exc |-> None, msg |-> "", value |-> value]


(***************************************************************************)
(* Entry and exit of a core call.                                          *)
(***************************************************************************)
Locals0 ==
    /\ ports' = <<>>
    /\ nsnap' = 0
    /\ idx' = 0
    /\ numports' = 0
    /\ portnum' = 0

\* A front end calls fn, whose first statement is ports = list_usbports().
\* fn reads its arguments only after list_usbports has returned: the model
\* draws each (Args, FeatureArgs) where fn first reads it.
Begin(fn) ==
    /\ pc \in {"idle", "done"}
    /\ call' = [NoCall EXCEPT !.fn = fn]
    /\ pc' = "enum"
    /\ Locals0
    /\ opened' = {}
    /\ requests' = <<>>
    /\ faults' = 0
    /\ result' = NoResult
    /\ UNCHANGED <<attached, fds>>

\* the call in progress with the location argument a front end can have
\* passed
Args ==
    { [call EXCEPT !.location = location] :
        location \in IF indi.phase = "control" THEN {indi.location}
                     ELSE LocTexts }

\* the (feature, value) pair the caller passed: new_property's is fixed by
\* the command word
Features ==
    IF indi.phase = "control" THEN {<<indi.feature, indi.value>>}
    ELSE FeatureArgs

\* the call returns or raises res; its locals are gone
End(res) ==
    /\ pc' = "done"
    /\ result' = res
    /\ Locals0

(***************************************************************************)
(* list_usbports: the enumeration loop.                                    *)
(***************************************************************************)
\* What one string-descriptor read of pyusb does.  A device without the
\* string (index 0) answers None with no transfer.  Otherwise the read
\* returns the string, or raises ValueError (no langid) or USBError (the
\* control transfer failed).
Reads(string, budget) ==
    IF string # None /\ budget > 0 THEN {None, "ValueError", "USBError"}
    ELSE {None}

Cost(outcome) == IF outcome = None THEN 0 ELSE 1

\* device_serial: a bare except
device_serial(dev, outcome) ==
    IF outcome = None THEN [exc |-> None, value |-> dev.serial_number]
    ELSE [exc |-> None, value |-> None]

\* device_product: except ValueError
device_product(dev, outcome) ==
    IF outcome = None THEN [exc |-> None, value |-> dev.product]
    ELSE IF outcome = "ValueError" THEN [exc |-> None, value |-> None]
    ELSE [exc |-> outcome, value |-> None]

\* device_manufacturer: except ValueError
device_manufacturer(dev, outcome) ==
    IF outcome = None THEN [exc |-> None, value |-> dev.manufacturer]
    ELSE IF outcome = "ValueError" THEN [exc |-> None, value |-> None]
    ELSE [exc |-> outcome, value |-> None]

\* the dict list_usbports builds for dev
PortDict(dev, manufacturer, product, serial_number) ==
    [dev           |-> dev,
     bus           |-> dev.bus,
     port_number   |-> IF dev.port_numbers = <<>> THEN 0
                       ELSE dev.port_numbers[Len(dev.port_numbers)],
     address       |-> dev.address,
     vidpid        |-> <<dev.idVendor, dev.idProduct>>,
     location      |-> DevLocation(dev),
     usb_level     |-> dev.bcdUSB \div 256,
     serial_number |-> serial_number,
     product       |-> product,
     manufacturer  |-> manufacturer,
     is_hub        |-> dev.bDeviceClass = USB_CLASS_HUB]

Enumerated == { ports[i].dev : i \in { j \in 1..Len(ports) : "dev" \in DOMAIN ports[j] } }

\* one iteration of "for dev in usb.core.find(find_all=True)" that appends
list_usbports_dev ==
    /\ pc = "enum"
    /\ Len(ports) < MaxDevs
    /\ \E dev \in attached \ Enumerated :
       \E om \in Reads(dev.manufacturer, MaxFaults - faults) :
       \E op \in Reads(dev.product, MaxFaults - faults - Cost(om)) :
       \E os \in Reads(dev.serial_number, MaxFaults - faults - Cost(om) - Cost(op)) :
          LET manufacturer == device_manufacturer(dev, om)
              product      == device_product(dev, op)
              serial       == device_serial(dev, os)
          IN  /\ manufacturer.exc = None
              /\ product.exc = None
              /\ ports' = Append(ports, PortDict(dev, manufacturer.value,
                                                 product.value, serial.value))
              /\ faults' = faults + Cost(om) + Cost(op) + Cost(os)
    /\ UNCHANGED <<attached, call, pc, nsnap, idx, numports, portnum, fds,
                   opened, requests, result>>
    /\ UNCHANGED restVars

\* one iteration in which device_manufacturer or device_product lets an
\* exception through: it leaves list_usbports and the call
list_usbports_dev_raises ==
    /\ pc = "enum"
    /\ Len(ports) < MaxDevs
    /\ \E dev \in attached \ Enumerated :
       \E om \in Reads(dev.manufacturer, MaxFaults - faults) :
       \E op \in Reads(dev.product, MaxFaults - faults - Cost(om)) :
          LET manufacturer == device_manufacturer(dev, om)
              product      == device_product(dev, op)
          IN  /\ manufacturer.exc # None \/ product.exc # None
              /\ manufacturer.exc # None => op = None
              /\ faults' = faults + Cost(om) + Cost(op)
              /\ End(Raised(IF manufacturer.exc # None THEN manufacturer.exc
                            ELSE product.exc, "list_usbports: string descriptor"))
    /\ UNCHANGED <<attached, call, fds, opened, requests>>
    /\ UNCHANGED restVars

\* the enumeration is exhausted: update_hubs(ports) takes list(ports)
list_usbports_enumerated ==
    /\ pc = "enum"
    /\ pc' = "hubs"
    /\ nsnap' = Len(ports)
    /\ idx' = 1
    /\ UNCHANGED <<attached, call, ports, numports, portnum, fds, opened,
                   requests, faults, result>>
    /\ UNCHANGED restVars

(***************************************************************************)
(* update_hubs.                                                            *)
(***************************************************************************)
\* leaving a "with open(...) as fd" block, by any path, closes fd
with_exit_leaks(open_fds, file) == open_fds

with_exit(open_fds, file) == open_fds \ {file}

\* range(1, numports + 1)
port_range_short(n) == 1..(n - 1)

port_range(n) == 1..n

\* the body of the port loop: the status goes to the entry at port_location,
\* or to a new entry when find returns None
attach_always_appends(data, port_location, port_status) ==
    Append(data, [location |-> port_location, port_status |-> port_status])

attach_port_status(data, port_location, port_status) ==
    LET res == find(data, port_location)
    IN  IF res # 0
        THEN [data EXCEPT ![res] = Put(@, "port_status", port_status)]
        ELSE Append(data, [location    |-> port_location,
                           port_status |-> port_status])

\* d is no hub: next d
update_hubs_skip ==
    /\ pc = "hubs"
    /\ idx <= nsnap
    /\ ~ports[idx].is_hub
    /\ idx' = idx + 1
    /\ UNCHANGED <<attached, call, pc, ports, nsnap, numports, portnum, fds,
                   opened, requests, faults, result>>
    /\ UNCHANGED restVars

\* with open(usb_filename(d['dev']), 'w+') as fd: the open succeeds
update_hubs_open ==
    /\ pc = "hubs"
    /\ idx <= nsnap
    /\ ports[idx].is_hub
    /\ fds' = fds \cup {usb_filename(ports[idx].dev)}
    /\ opened' = opened \cup {usb_filename(ports[idx].dev)}
    /\ pc' = "hub_fd"
    /\ UNCHANGED <<attached, call, ports, nsnap, idx, numports, portnum,
                   requests, faults, result>>
    /\ UNCHANGED restVars

\* the open raises OSError (permission denied, the node is gone): nothing
\* in update_hubs or list_usbports catches it
update_hubs_open_raises ==
    /\ pc = "hubs"
    /\ idx <= nsnap
    /\ ports[idx].is_hub
    /\ faults < MaxFaults
    /\ faults' = faults + 1
    /\ End(Raised("OSError", "update_hubs: open"))
    /\ UNCHANGED <<attached, call, fds, opened, requests>>
    /\ UNCHANGED restVars

\* usb_hub_numports returns bNbrPorts
update_hubs_numports ==
    /\ pc = "hub_fd"
    /\ \E n \in MinPorts(ports[idx].dev)..MaxPorts :
          /\ numports' = n
          /\ ports' = [ports EXCEPT ![idx] = Put(@, "numports", n)]
    /\ portnum' = 1
    /\ pc' = "hub_ports"
    /\ UNCHANGED <<attached, call, nsnap, idx, fds, opened, requests, faults,
                   result>>
    /\ UNCHANGED restVars

\* usb_hub_numports swallows the ioctl's exception and returns None:
\* "continue" leaves the with block, which closes fd
update_hubs_numports_none ==
    /\ pc = "hub_fd"
    /\ faults < MaxFaults
    /\ faults' = faults + 1
    /\ fds' = with_exit(fds, usb_filename(ports[idx].dev))
    /\ idx' = idx + 1
    /\ pc' = "hubs"
    /\ UNCHANGED <<attached, call, ports, nsnap, numports, portnum, opened,
                   requests, result>>
    /\ UNCHANGED restVars

\* the body of "for portnum in range(1, numports + 1)"
update_hubs_port ==
    /\ pc = "hub_ports"
    /\ portnum \in port_range(numports)
    /\ LET d             == ports[idx]
           port_status   == decode_port_status(PortWord(d.dev, portnum), d.usb_level)
           port_location == Append(d.location, portnum)
       IN  ports' = attach_port_status(ports, port_location, port_status)
    /\ portnum' = portnum + 1
    /\ UNCHANGED <<attached, call, pc, nsnap, idx, numports, fds, opened,
                   requests, faults, result>>
    /\ UNCHANGED restVars

\* usb_hub_port_status's ioctl raises OSError: the with block closes fd and
\* the exception leaves update_hubs, list_usbports and the call
update_hubs_port_raises ==
    /\ pc = "hub_ports"
    /\ portnum \in port_range(numports)
    /\ faults < MaxFaults
    /\ faults' = faults + 1
    /\ fds' = with_exit(fds, usb_filename(ports[idx].dev))
    /\ End(Raised("OSError", "update_hubs: port status"))
    /\ UNCHANGED <<attached, call, opened, requests>>
    /\ UNCHANGED restVars

\* the port loop is over: the with block closes fd; next d
update_hubs_close ==
    /\ pc = "hub_ports"
    /\ portnum \notin port_range(numports)
    /\ fds' = with_exit(fds, usb_filename(ports[idx].dev))
    /\ idx' = idx + 1
    /\ pc' = "hubs"
    /\ UNCHANGED <<attached, call, ports, nsnap, numports, portnum, opened,
                   requests, faults, result>>
    /\ UNCHANGED restVars

\* the snapshot is exhausted: update_hubs returns
update_hubs_return ==
    /\ pc = "hubs"
    /\ idx > nsnap
    /\ pc' = "comports"
    /\ UNCHANGED <<attached, call, ports, nsnap, idx, numports, portnum, fds,
                   opened, requests, faults, result>>
    /\ UNCHANGED restVars

(***************************************************************************)
(* update_comports, and the return of list_usbports.                       *)
(***************************************************************************)
\* d['name'] is the list of the names joined by ' '
RECURSIVE update_comports(_, _)
update_comports(data, infos) ==
    IF infos = <<>> THEN data
    ELSE LET info == Head(infos)
             i    == IF info.usb
                     THEN find(data, parse_location(info.location).value)
                     ELSE 0
             next == IF i = 0 THEN data
                     ELSE IF "name" \in DOMAIN data[i]
                     THEN [data EXCEPT ![i] =
                             Put(@, "name", Append(data[i].name, info.name))]
                     ELSE [data EXCEPT ![i] = Put(@, "name", <<info.name>>)]
         IN  update_comports(next, Tail(infos))

list_usbports_return ==
    /\ pc = "comports"
    /\ \E infos \in SerialLists : ports' = update_comports(ports, infos)
    /\ pc' = "listed"
    /\ UNCHANGED <<attached, call, nsnap, idx, numports, portnum, fds, opened,
                   requests, faults, result>>
    /\ UNCHANGED restVars


(***************************************************************************)
(* describe_ports.                                                         *)
(***************************************************************************)
\* Python's < on tuples of integers
LocLess(a, b) ==
    \E k \in 1..Len(b) :
        /\ \A j \in 1..(k - 1) : j <= Len(a) /\ a[j] = b[j]
        /\ k > Len(a) \/ (k <= Len(a) /\ a[k] < b[k])

\* list.sort(key=location) is stable: d goes after the entries not above it
InsertByLocation(sorted, d) ==
    LET above == { i \in 1..Len(sorted) : LocLess(d.location, sorted[i].location) }
        at    == IF above = {} THEN Len(sorted) + 1
                 ELSE CHOOSE i \in above : \A j \in above : i <= j
    IN  SubSeq(sorted, 1, at - 1) \o <<d>> \o SubSeq(sorted, at, Len(sorted))

RECURSIVE sort_by_location(_)
sort_by_location(data) ==
    IF data = <<>> THEN <<>>
    ELSE InsertByLocation(sort_by_location(SubSeq(data, 1, Len(data) - 1)),
                          data[Len(data)])

\* One line per port that is no hub.  Of the line's text the model keeps the
\* address column (the line's first word), the status column and whether a
\* vendor:product column is printed.
RECURSIVE describe_lines(_)
describe_lines(sorted) ==
    IF sorted = <<>> THEN <<>>
    ELSE LET d == Head(sorted)
         IN  IF "is_hub" \in DOMAIN d /\ d.is_hub
             THEN describe_lines(Tail(sorted))
             ELSE <<[address     |-> format_address(d.location),
                     port_status |-> IF "port_status" \in DOMAIN d
                                     THEN d.port_status ELSE <<>>,
                     vidpid      |-> "vidpid" \in DOMAIN d]>>
                  \o describe_lines(Tail(sorted))

describe_ports(data) == describe_lines(sort_by_location(data))

(***************************************************************************)
(* show_ports, soft_reset, set_feature after list_usbports has returned.   *)
(***************************************************************************)
\* show_ports and Indiserver.update_values: describe_ports(list_usbports())
show_ports_return ==
    /\ pc = "listed"
    /\ call.fn \in {"show_ports", "update_values"}
    /\ End(Returned(describe_ports(ports)))
    /\ UNCHANGED <<attached, call, fds, opened, requests, faults>>
    /\ UNCHANGED restVars

\* The exception soft_reset raises before it opens anything, None if none.
\* Once the control node is open the call reads ports no more: the model
\* drops the locals there.
soft_reset_check(data, location_text) ==
    LET location == parse_location(location_text)
        d        == find(data, location.value)
    IN  IF location.exc # None
        THEN Raised(location.exc, "invalid literal for int() with base 10")
        ELSE IF d = 0
        THEN Raised("ValueError", "bad usb port location, port not found")
        ELSE IF "dev" \notin DOMAIN data[d]
        THEN Raised("ValueError",
                    "usb device not enumerated or plugged in, use the other commands")
        ELSE Returned(<<d>>)

soft_reset_raises ==
    /\ pc = "listed"
    /\ call.fn = "soft_reset"
    /\ \E args \in Args :
       /\ call' = args
       /\ soft_reset_check(ports, args.location).exc # None
       /\ End(soft_reset_check(ports, args.location))
       /\ UNCHANGED <<attached, fds, opened, requests, faults>>
    /\ UNCHANGED restVars

soft_reset_open ==
    /\ pc = "listed"
    /\ call.fn = "soft_reset"
    /\ \E args \in Args :
       /\ call' = args
       /\ soft_reset_check(ports, args.location).exc = None
       /\ LET d == soft_reset_check(ports, args.location).value[1]
          IN  /\ fds' = fds \cup {usb_filename(ports[d].dev)}
              /\ opened' = opened \cup {usb_filename(ports[d].dev)}
       /\ pc' = "reset_fd"
       /\ Locals0
       /\ UNCHANGED <<attached, requests, faults, result>>
    /\ UNCHANGED restVars

soft_reset_open_raises ==
    /\ pc = "listed"
    /\ call.fn = "soft_reset"
    /\ \E args \in Args :
       /\ call' = args
       /\ soft_reset_check(ports, args.location).exc = None
       /\ faults < MaxFaults
       /\ faults' = faults + 1
       /\ End(Raised("OSError", "soft_reset: open"))
       /\ UNCHANGED <<attached, fds, opened, requests>>
    /\ UNCHANGED restVars

\* usb_reset(fd), then the with block closes fd
soft_reset_ioctl ==
    /\ pc = "reset_fd"
    /\ \E fd \in fds :
          /\ requests' = Append(requests, [request |-> "USBDEVFS_RESET",
                                           file    |-> fd,
                                           wIndex  |-> 0,
                                           wValue  |-> 0])
          /\ fds' = with_exit(fds, fd)
    /\ End(Returned(<<>>))
    /\ UNCHANGED <<attached, call, opened, faults>>
    /\ UNCHANGED restVars

soft_reset_ioctl_raises ==
    /\ pc = "reset_fd"
    /\ faults < MaxFaults
    /\ faults' = faults + 1
    /\ \E fd \in fds : fds' = with_exit(fds, fd)
    /\ End(Raised("OSError", "soft_reset: ioctl"))
    /\ UNCHANGED <<attached, call, opened, requests>>
    /\ UNCHANGED restVars

\* the control transfer usb_hub_feature issues
usb_hub_feature(fd, port, feature, value) ==
    [request |-> IF value # 0 THEN "USB_REQ_SET_FEATURE"
                 ELSE "USB_REQ_CLEAR_FEATURE",
     file    |-> fd,
     wIndex  |-> port,
     wValue  |-> feature]

\* set_feature without its "port not found" test
set_feature_check_no_find(data, location_text) ==
    LET location == parse_location(location_text)
        hub      == find(data, SubSeq(location.value, 1, Len(location.value) - 1))
    IN  IF location.exc # None
        THEN Raised(location.exc, "invalid literal for int() with base 10")
        ELSE IF hub = 0
        THEN Raised("TypeError", "argument of type 'NoneType' is not iterable")
        ELSE IF "dev" \notin DOMAIN data[hub]
        THEN Raised("ValueError",
                    "cannot talk to device's hub, usb hub never enumerated")
        ELSE Returned(<<hub>>)

\* set_feature with soft_reset's test of the port's own device in place of
\* the test of the hub's
set_feature_check_own_dev(data, location_text) ==
    LET location == parse_location(location_text)
        d        == find(data, location.value)
        hub      == find(data, SubSeq(location.value, 1, Len(location.value) - 1))
    IN  IF location.exc # None
        THEN Raised(location.exc, "invalid literal for int() with base 10")
        ELSE IF d = 0
        THEN Raised("ValueError", "bad usb port location, port not found")
        ELSE IF hub = 0
        THEN Raised("TypeError", "argument of type 'NoneType' is not iterable")
        ELSE IF "dev" \notin DOMAIN data[d]
        THEN Raised("ValueError",
                    "usb device not enumerated or plugged in, use the other commands")
        ELSE Returned(<<d>>)

\* the exception set_feature raises before it opens anything, None if none;
\* location[:-1] is the location without its last port number
set_feature_check(data, location_text) ==
    LET location == parse_location(location_text)
        d        == find(data, location.value)
        hub      == find(data, SubSeq(location.value, 1, Len(location.value) - 1))
    IN  IF location.exc # None
        THEN Raised(location.exc, "invalid literal for int() with base 10")
        ELSE IF d = 0
        THEN Raised("ValueError", "bad usb port location, port not found")
        ELSE IF hub = 0
        THEN Raised("TypeError", "argument of type 'NoneType' is not iterable")
        ELSE IF "dev" \notin DOMAIN data[hub]
        THEN Raised("ValueError",
                    "cannot talk to device's hub, usb hub never enumerated")
        ELSE Returned(<<hub>>)

set_feature_raises ==
    /\ pc = "listed"
    /\ call.fn = "set_feature"
    /\ \E args \in Args :
       /\ call' = args
       /\ set_feature_check(ports, args.location).exc # None
       /\ End(set_feature_check(ports, args.location))
       /\ UNCHANGED <<attached, fds, opened, requests, faults>>
    /\ UNCHANGED restVars

set_feature_open ==
    /\ pc = "listed"
    /\ call.fn = "set_feature"
    /\ \E args \in Args :
       /\ call' = args
       /\ set_feature_check(ports, args.location).exc = None
       /\ LET d == set_feature_check(ports, args.location).value[1]
          IN  /\ fds' = fds \cup {usb_filename(ports[d].dev)}
              /\ opened' = opened \cup {usb_filename(ports[d].dev)}
       /\ pc' = "feature_fd"
       /\ Locals0
       /\ UNCHANGED <<attached, requests, faults, result>>
    /\ UNCHANGED restVars

set_feature_open_raises ==
    /\ pc = "listed"
    /\ call.fn = "set_feature"
    /\ \E args \in Args :
       /\ call' = args
       /\ set_feature_check(ports, args.location).exc = None
       /\ faults < MaxFaults
       /\ faults' = faults + 1
       /\ End(Raised("OSError", "set_feature: open"))
       /\ UNCHANGED <<attached, fds, opened, requests>>
    /\ UNCHANGED restVars

\* usb_hub_feature(fd, location[-1], feature, value), then the close
set_feature_ioctl ==
    /\ pc = "feature_fd"
    /\ \E fd \in fds : \E fv \in Features :
          /\ call' = [call EXCEPT !.feature = fv[1], !.value = fv[2]]
          /\ requests' = Append(requests, usb_hub_feature(fd,
                             LET location == parse_location(call.location).value
                             IN  location[Len(location)],
                             fv[1], fv[2]))
          /\ fds' = with_exit(fds, fd)
    /\ End(Returned(<<>>))
    /\ UNCHANGED <<attached, opened, faults>>
    /\ UNCHANGED restVars

set_feature_ioctl_raises ==
    /\ pc = "feature_fd"
    /\ faults < MaxFaults
    /\ faults' = faults + 1
    /\ \E fd \in fds : fds' = with_exit(fds, fd)
    /\ \E fv \in Features :
          call' = [call EXCEPT !.feature = fv[1], !.value = fv[2]]
    /\ End(Raised("OSError", "set_feature: ioctl"))
    /\ UNCHANGED <<attached, opened, requests>>
    /\ UNCHANGED restVars

(***************************************************************************)
(* The front ends' calls into the core (command_line, do_GET, do_POST).    *)
(***************************************************************************)
call_show_ports ==
    /\ Begin("show_ports")
    /\ UNCHANGED restVars

call_soft_reset ==
    /\ Begin("soft_reset")
    /\ UNCHANGED restVars

call_set_feature ==
    /\ Begin("set_feature")
    /\ UNCHANGED restVars

(***************************************************************************)
(* Spec: the core under the calls of the command line and REST front ends. *)
(***************************************************************************)
CoreIdle ==
    /\ call = NoCall
    /\ pc = "idle"
    /\ ports = <<>>
    /\ nsnap = 0
    /\ idx = 0
    /\ numports = 0
    /\ portnum = 0
    /\ fds = {}
    /\ opened = {}
    /\ requests = <<>>
    /\ faults = 0
    /\ result = NoResult

CoreInit == attached = Bench /\ CoreIdle

NotParsed == [exc |-> "pending", value |-> <<>>]
NotDecoded == <<"pending">>

ParseIdle == text = <<>> /\ parsed = NotParsed
DecodeIdle == word = 0 /\ level = 2 /\ flags = NotDecoded

\* no Indiserver has been constructed
IndiOff ==
    [phase |-> "off", state |-> "Ok", message |-> "unset", values |-> <<>>,
     location |-> <<>>, feature |-> 0, value |-> 0]
NoEvent == [event |-> "none"]

IndiIdle ==
    /\ indi = IndiOff
    /\ socklist = <<>>
    /\ published = <<>>
    /\ handled = NoEvent

\* no client has sent anything
FramingIdle ==
    /\ docs = <<>>
    /\ stream = <<>>
    /\ readbuf = <<>>
    /\ delivered = <<>>

Init == CoreInit /\ ParseIdle /\ DecodeIdle /\ IndiIdle /\ FramingIdle

Next ==
    \/ call_show_ports
    \/ call_soft_reset
    \/ call_set_feature
    \/ list_usbports_dev
    \/ list_usbports_dev_raises
    \/ list_usbports_enumerated
    \/ update_hubs_skip
    \/ update_hubs_open
    \/ update_hubs_open_raises
    \/ update_hubs_numports
    \/ update_hubs_numports_none
    \/ update_hubs_port
    \/ update_hubs_port_raises
    \/ update_hubs_close
    \/ update_hubs_return
    \/ list_usbports_return
    \/ show_ports_return
    \/ soft_reset_raises
    \/ soft_reset_open
    \/ soft_reset_open_raises
    \/ soft_reset_ioctl
    \/ soft_reset_ioctl_raises
    \/ set_feature_raises
    \/ set_feature_open
    \/ set_feature_open_raises
    \/ set_feature_ioctl
    \/ set_feature_ioctl_raises

Spec == Init /\ [][Next]_vars


(***************************************************************************)
(* SpecParse: parse_location on every text of up to MaxLen characters.     *)
(***************************************************************************)
Alphabet == {"0", "1", "2", "-", ".", ":", " "}

Texts == UNION { [1..n -> Alphabet] : n \in 0..MaxLen }

ParseInit ==
    /\ CoreInit
    /\ DecodeIdle
    /\ IndiIdle
    /\ FramingIdle
    /\ text \in Texts
    /\ parsed = NotParsed

parse_location_call ==
    /\ parsed = NotParsed
    /\ parsed' = parse_location(text)
    /\ UNCHANGED <<coreVars, decodeVars, indiVars, framingVars, text>>

SpecParse == ParseInit /\ [][parse_location_call]_vars

(***************************************************************************)
(* SpecDecode: the decoding of usb_hub_port_status on every 16-bit         *)
(* wPortStatus and every usb_level.                                        *)
(***************************************************************************)
DecodeInit ==
    /\ CoreInit
    /\ ParseIdle
    /\ IndiIdle
    /\ FramingIdle
    /\ word \in 0..65535
    /\ level \in {1, 2, 3}
    /\ flags = NotDecoded

usb_hub_port_status_decode ==
    /\ flags = NotDecoded
    /\ flags' = decode_port_status(word, level)
    /\ UNCHANGED <<coreVars, parseVars, indiVars, framingVars, word, level>>

SpecDecode == DecodeInit /\ [][usb_hub_port_status_decode]_vars


(***************************************************************************)
(* SpecIndi: the INDI front end.  The loop is single-threaded: it accepts  *)
(* and closes connections and receives documents only between messages,    *)
(* and a message is handled to its end, core calls included, before the    *)
(* next select.  sendall to a connection of socklist succeeds.             *)
(***************************************************************************)
\* most oneText children of a newTextVector a client sends
MaxFields == 2

\* the machine of the INDI front end: a root hub with a serial adapter on
\* its port 1
IndiBench ==
    { Device(1, 1, <<>>,  512, USB_CLASS_HUB, <<None, None, None>>),
      Device(1, 2, <<1>>, 512, 0,             <<None, "uart", None>>) }

Clients == {"c1"}

\* str.lower() on the letters the clients write
lower(s) ==
    [i \in 1..Len(s) |->
        CASE s[i] = "H" -> "h"
          [] s[i] = "O" -> "o"
          [] s[i] = "F" -> "f"
          [] OTHER -> s[i]]

\* the texts a client writes into a field
FieldTexts ==
    { <<"r", "e", "s", "e", "t">>,
      <<" ", "H", "a", "r", "d">>,
      <<"d", "i", "s", "a", "b", "l", "e">>,
      <<"o", "n">>,
      <<"O", "F", "F", " ">>,
      <<"e", "j", "e", "c", "t">>,
      <<" ">> }

OneText(name, chars) == [tag |-> "oneText", name |-> name, text |-> chars]

\* the children of a newTextVector: every text written into field 1, some
\* written into field 2, and a command written into a field whose name is
\* no number
Children ==
    { OneText(<<"1">>, field_text) : field_text \in FieldTexts }
    \cup { OneText(<<"2">>, <<"r", "e", "s", "e", "t">>),
           OneText(<<"2">>, <<"o", "n">>),
           OneText(<<"2">>, <<" ">>),
           OneText(<<"x">>, <<"o", "n">>) }

\* a newTextVector names each field at most once
Writes ==
    { children \in UNION { [1..n -> Children] : n \in 0..MaxFields } :
        \A i, j \in 1..Len(children) :
            children[i].name = children[j].name => i = j }

\* the text of a line of describe_ports: the address column, padded
line_text(line) == line.address \o <<" ">>

\* update_values: self.values from the lines of describe_ports
values_of(arr) ==
    [i \in 1..Len(arr) |-> [value |-> arr[i], name |-> str_int(i)]]

\* the list comprehension of new_property: a (command, line) pair for each
\* oneText child with text; the first child whose name is no integer or no
\* index of self.values raises.  A negative index counts from the end.
RECURSIVE changes_of(_, _)
changes_of(children, values) ==
    IF children = <<>> THEN Returned(<<>>)
    ELSE LET child == Head(children)
             rest  == changes_of(Tail(children), values)
             i     == int_val(child.name) - 1
             n     == Len(values)
         IN  IF child.tag # "oneText" \/ strip(child.text) = <<>> THEN rest
             ELSE IF ~int_ok(child.name)
             THEN Raised("ValueError", "invalid literal for int() with base 10")
             ELSE IF i >= n \/ i < 0 - n
             THEN Raised("IndexError", "list index out of range")
             ELSE IF rest.exc # None THEN rest
             ELSE Returned(<<[command |-> lower(strip(child.text)),
                              location |-> values[IF i >= 0 THEN i + 1
                                                  ELSE n + i + 1].value]>>
                           \o rest.value)

\* the if/elif chain of new_property: the core call of a command word
Commands ==
    { [command |-> <<"r", "e", "s", "e", "t">>, fn |-> "soft_reset",
       feature |-> 0, value |-> 0],
      [command |-> <<"h", "a", "r", "d">>, fn |-> "set_feature",
       feature |-> USB_PORT_FEAT_RESET, value |-> 1],
      [command |-> <<"d", "i", "s", "a", "b", "l", "e">>, fn |-> "set_feature",
       feature |-> USB_PORT_FEAT_ENABLE, value |-> 0],
      [command |-> <<"o", "n">>, fn |-> "set_feature",
       feature |-> USB_PORT_FEAT_POWER, value |-> 1],
      [command |-> <<"o", "f", "f">>, fn |-> "set_feature",
       feature |-> USB_PORT_FEAT_POWER, value |-> 0] }

Recognized(command) == \E c \in Commands : c.command = command
CommandOf(command) == CHOOSE c \in Commands : c.command = command

\* new_property without its first assignment, self.state = 'Alert'
new_property_enter_keeps_state(self) == [self EXCEPT !.message = None]

\* the first two assignments of new_property
new_property_enter(self) == [self EXCEPT !.state = "Alert", !.message = None]

\* the except clause of new_property: the last line of the traceback
new_property_except(self, res) ==
    [self EXCEPT !.state = "Alert", !.message = res.msg]

define_property(self) ==
    [tag |-> "defTextVector", state |-> self.state, message |-> None,
     values |-> self.values]

\* set_property reads self.message, an attribute only new_property sets
set_property(self) ==
    IF self.message = "unset" THEN Raised("AttributeError", "message")
    ELSE Returned([tag |-> "setTextVector", state |-> self.state,
                   message |-> self.message, values |-> self.values])

\* publish: the document goes to every connection of socklist
publish(sent, root) ==
    IF socklist # <<>> THEN Append(sent, [doc |-> root, to |-> socklist])
    ELSE sent

\* the two publish calls that end on_message's newTextVector branch, and
\* the loop back at select, or dead of the exception that left on_message
Republish(self) ==
    LET root == set_property(self)
    IN  IF root.exc # None
        THEN /\ indi' = [self EXCEPT !.phase = "crashed"]
             /\ published' = publish(<<>>, define_property(self))
        ELSE /\ indi' = [self EXCEPT !.phase = "serving"]
             /\ published' = publish(publish(<<>>, define_property(self)),
                                     root.value)

pureVars == <<text, parsed, word, level, flags, docs, stream, readbuf,
              delivered>>

\* the caller has taken the result of the core call: the frame is gone
Taken ==
    /\ call' = NoCall
    /\ pc' = "idle"
    /\ result' = NoResult
    /\ opened' = {}
    /\ requests' = <<>>
    /\ faults' = 0
    /\ UNCHANGED <<attached, ports, nsnap, idx, numports, portnum, fds>>

\* what the client wrote: how many fields carry text, and for the write of
\* one field whether its word is a command
Written(children) ==
    LET fields == { i \in 1..Len(children) : strip(children[i].text) # <<>> }
    IN  [event   |-> "write",
         socks   |-> socklist,
         fields  |-> Cardinality(fields),
         command |-> /\ Cardinality(fields) = 1
                     /\ \E i \in fields :
                           Recognized(lower(strip(children[i].text))),
         control |-> "none",
         refresh |-> "none"]

\* Indiserver(): the constructor runs update_values
Indiserver_init ==
    /\ indi.phase = "off"
    /\ Begin("update_values")
    /\ indi' = [indi EXCEPT !.phase = "init"]
    /\ UNCHANGED <<socklist, published, handled>>
    /\ UNCHANGED pureVars

\* update_values returned to the constructor and loop() enters its while
Indiserver_loop ==
    /\ indi.phase = "init"
    /\ pc = "done"
    /\ result.exc = None
    /\ indi' = [indi EXCEPT !.phase = "serving",
                            !.values = values_of(result.value)]
    /\ Taken
    /\ UNCHANGED <<socklist, published, handled>>
    /\ UNCHANGED pureVars

\* update_values raised in the constructor: the program ends with no server
Indiserver_init_raises ==
    /\ indi.phase = "init"
    /\ pc = "done"
    /\ result.exc # None
    /\ indi' = [indi EXCEPT !.phase = "crashed"]
    /\ Taken
    /\ UNCHANGED <<socklist, published, handled>>
    /\ UNCHANGED pureVars

\* _accept_conn
loop_accept_conn ==
    /\ indi.phase = "serving"
    /\ \E s \in Clients :
          /\ \A i \in 1..Len(socklist) : socklist[i] # s
          /\ socklist' = Append(socklist, s)
    /\ published' = <<>>
    /\ handled' = NoEvent
    /\ UNCHANGED <<coreVars, pureVars, indi>>

\* _close_conn: the client hung up (recv returned b'') or select reported
\* an error on its socket
loop_close_conn ==
    /\ indi.phase = "serving"
    /\ \E i \in 1..Len(socklist) :
          socklist' = SubSeq(socklist, 1, i - 1)
                      \o SubSeq(socklist, i + 1, Len(socklist))
    /\ published' = <<>>
    /\ handled' = NoEvent
    /\ UNCHANGED <<coreVars, pureVars, indi>>

\* on_message: getProperties, for whichever device
on_message_getProperties ==
    /\ indi.phase = "serving"
    /\ socklist # <<>>
    /\ handled' = [event |-> "getProperties"]
    /\ published' = publish(<<>>, define_property(indi))
    /\ UNCHANGED <<coreVars, pureVars, indi, socklist>>

\* on_message: any other document, and a newTextVector for another device
\* or another property
on_message_ignores ==
    /\ indi.phase = "serving"
    /\ socklist # <<>>
    /\ handled' = [event |-> "ignored"]
    /\ published' = <<>>
    /\ UNCHANGED <<coreVars, pureVars, indi, socklist>>

\* new_property returns before any core call: the comprehension raised,
\* the word is no command, or more than one field carries text
new_property_returns ==
    /\ indi.phase = "serving"
    /\ socklist # <<>>
    /\ \E children \in Writes :
          LET self    == new_property_enter(indi)
              changes == changes_of(children, self.values)
          IN  /\ handled' = Written(children)
              /\ \/ /\ changes.exc # None
                    /\ Republish(new_property_except(self, changes))
                 \/ /\ changes.exc = None
                    /\ Len(changes.value) = 1
                    /\ ~Recognized(changes.value[1].command)
                    /\ Republish([self EXCEPT
                                    !.message = "command not recognized"])
                 \/ /\ changes.exc = None
                    /\ Len(changes.value) > 1
                    /\ Republish([self EXCEPT !.message =
                          "too many commands, erase those not needed"])
    /\ UNCHANGED <<coreVars, pureVars, socklist>>

\* new_property calls soft_reset or set_feature for the one command written
new_property_calls ==
    /\ indi.phase = "serving"
    /\ socklist # <<>>
    /\ \E children \in Writes :
          LET self    == new_property_enter(indi)
              changes == changes_of(children, self.values)
          IN  /\ changes.exc = None
              /\ Len(changes.value) = 1
              /\ Recognized(changes.value[1].command)
              /\ LET c == CommandOf(changes.value[1].command)
                 IN  /\ Begin(c.fn)
                     /\ indi' = [self EXCEPT
                           !.phase = "control",
                           !.location = first_word(line_text(
                                            changes.value[1].location)),
                           !.feature = c.feature,
                           !.value = c.value]
              /\ handled' = Written(children)
    /\ published' = <<>>
    /\ UNCHANGED <<pureVars, socklist>>

\* no field carries text: new_property goes straight to its refresh
new_property_no_changes ==
    /\ indi.phase = "serving"
    /\ socklist # <<>>
    /\ \E children \in Writes :
          LET self    == new_property_enter(indi)
              changes == changes_of(children, self.values)
          IN  /\ changes.exc = None
              /\ changes.value = <<>>
              /\ Begin("update_values")
              /\ indi' = [self EXCEPT !.phase = "refresh", !.state = "Ok"]
              /\ handled' = Written(children)
    /\ published' = <<>>
    /\ UNCHANGED <<pureVars, socklist>>

\* the control call raised: the except clause, then on_message publishes
new_property_control_raised ==
    /\ indi.phase = "control"
    /\ pc = "done"
    /\ result.exc # None
    /\ handled' = [handled EXCEPT !.control = "raised"]
    /\ Republish(new_property_except(
                    [indi EXCEPT !.location = <<>>, !.feature = 0, !.value = 0],
                    result))
    /\ Taken
    /\ UNCHANGED <<pureVars, socklist>>

\* the control call returned: self.state = 'Ok', then update_values
new_property_control_returned ==
    /\ indi.phase = "control"
    /\ pc = "done"
    /\ result.exc = None
    /\ handled' = [handled EXCEPT !.control = "returned"]
    /\ Begin("update_values")
    /\ indi' = [indi EXCEPT !.phase = "refresh", !.state = "Ok",
                            !.location = <<>>, !.feature = 0, !.value = 0]
    /\ UNCHANGED <<pureVars, socklist, published>>

\* update_values raised: the except clause, then on_message publishes
new_property_refresh_raised ==
    /\ indi.phase = "refresh"
    /\ pc = "done"
    /\ result.exc # None
    /\ handled' = [handled EXCEPT !.refresh = "raised"]
    /\ Republish(new_property_except(indi, result))
    /\ Taken
    /\ UNCHANGED <<pureVars, socklist>>

\* update_values returned, new_property returns, on_message publishes
new_property_refresh_returned ==
    /\ indi.phase = "refresh"
    /\ pc = "done"
    /\ result.exc = None
    /\ handled' = [handled EXCEPT !.refresh = "returned"]
    /\ Republish([indi EXCEPT !.values = values_of(result.value)])
    /\ Taken
    /\ UNCHANGED <<pureVars, socklist>>

IndiInit ==
    /\ attached = IndiBench
    /\ CoreIdle
    /\ ParseIdle
    /\ DecodeIdle
    /\ IndiIdle
    /\ FramingIdle

NextIndi ==
    \/ Indiserver_init
    \/ Indiserver_loop
    \/ Indiserver_init_raises
    \/ loop_accept_conn
    \/ loop_close_conn
    \/ on_message_getProperties
    \/ on_message_ignores
    \/ new_property_returns
    \/ new_property_calls
    \/ new_property_no_changes
    \/ new_property_control_raised
    \/ new_property_control_returned
    \/ new_property_refresh_raised
    \/ new_property_refresh_returned
    \/ list_usbports_dev
    \/ list_usbports_dev_raises
    \/ list_usbports_enumerated
    \/ update_hubs_skip
    \/ update_hubs_open
    \/ update_hubs_open_raises
    \/ update_hubs_numports
    \/ update_hubs_numports_none
    \/ update_hubs_port
    \/ update_hubs_port_raises
    \/ update_hubs_close
    \/ update_hubs_return
    \/ list_usbports_return
    \/ show_ports_return
    \/ soft_reset_raises
    \/ soft_reset_open
    \/ soft_reset_open_raises
    \/ soft_reset_ioctl
    \/ soft_reset_ioctl_raises
    \/ set_feature_raises
    \/ set_feature_open
    \/ set_feature_open_raises
    \/ set_feature_ioctl
    \/ set_feature_ioctl_raises

SpecIndi == IndiInit /\ [][NextIndi]_vars


(***************************************************************************)
(* SpecFraming: the framing of the INDI documents of one connection.  The  *)
(* loop receives the client's text in chunks; each chunk goes through      *)
(* _buffer_update and _buffer_parse, and every root parsed goes to         *)
(* on_message before the next chunk is read.                               *)
(***************************************************************************)
\* most documents a client sends
MaxDocs == 2

BUFFER_SIZE == 4096

Whitespace == {" ", "\n"}
Letters == {"a", "b", "x", "m", "l", "v", "e", "r", "s", "i", "o", "n"}
\* the characters a name goes on with, and a version number is made of
NameChars == Letters \cup {"0", "1", "."}

\* text without the whitespace at its ends
RECURSIVE xml_lstrip(_)
xml_lstrip(s) ==
    IF s # <<>> /\ Head(s) \in Whitespace THEN xml_lstrip(Tail(s)) ELSE s

RECURSIVE xml_rstrip(_)
xml_rstrip(s) ==
    IF s # <<>> /\ s[Len(s)] \in Whitespace
    THEN xml_rstrip(SubSeq(s, 1, Len(s) - 1)) ELSE s

\* the state of the XML parser before the first character
Scan0 ==
    [mode |-> "text", stack |-> <<>>, tag |-> <<>>, name |-> <<>>,
     attrs |-> {}, pos |-> 0, at |-> 0, body |-> <<>>,
     roots |-> 0, bad |-> FALSE]

\* an element has ended: the document element if nothing is open
Closed(st, stack) ==
    [st EXCEPT !.mode = "text", !.stack = stack, !.attrs = {},
               !.roots = IF stack = <<>> THEN @ + 1 ELSE @]

Bad(st) == [st EXCEPT !.bad = TRUE]

\* the body of an XML declaration is version="...", whitespace allowed
\* around it and around the =
DeclOk(body) ==
    LET version == <<"v", "e", "r", "s", "i", "o", "n">>
        b       == xml_lstrip(body)
        eq      == xml_lstrip(SubSeq(b, Len(version) + 1, Len(b)))
        quoted  == xml_rstrip(xml_lstrip(Tail(eq)))
    IN  /\ b # body
        /\ Len(b) > Len(version)
        /\ SubSeq(b, 1, Len(version)) = version
        /\ eq # <<>>
        /\ Head(eq) = "="
        /\ Len(quoted) >= 3
        /\ quoted[1] = "\""
        /\ quoted[Len(quoted)] = "\""
        /\ \A i \in 2..(Len(quoted) - 1) : quoted[i] \in NameChars

\* the parser takes character c.  Of XML it knows elements with names and
\* attributes of Letters, double-quoted attribute values, character data,
\* whitespace, processing instructions and the XML declaration, which may
\* stand at the very start of the text only.
ScanChar(st, c) ==
    IF st.bad THEN st
    ELSE CASE st.mode = "text" ->
              IF c = "<" THEN [st EXCEPT !.mode = "lt", !.at = st.pos]
              ELSE IF st.stack = <<>> /\ c \notin Whitespace THEN Bad(st)
              ELSE st
         [] st.mode = "lt" ->
              IF c = "/" /\ st.stack # <<>>
              THEN [st EXCEPT !.mode = "close", !.name = <<>>]
              ELSE IF c \in Letters /\ ~(st.stack = <<>> /\ st.roots > 0)
              THEN [st EXCEPT !.mode = "open", !.tag = <<c>>]
              ELSE IF c = "?" THEN [st EXCEPT !.mode = "target0"]
              ELSE Bad(st)
         [] st.mode = "target0" ->
              IF c \in Letters THEN [st EXCEPT !.mode = "target", !.name = <<c>>]
              ELSE Bad(st)
         [] st.mode = "target" ->
              IF c \in NameChars THEN [st EXCEPT !.name = Append(@, c)]
              ELSE IF st.name = <<"x", "m", "l">>
              THEN IF c \in Whitespace /\ st.at = 0
                   THEN [st EXCEPT !.mode = "decl", !.body = <<c>>]
                   ELSE Bad(st)
              ELSE IF c \in Whitespace THEN [st EXCEPT !.mode = "pi"]
              ELSE IF c = "?" THEN [st EXCEPT !.mode = "targetEnd"]
              ELSE Bad(st)
         [] st.mode = "targetEnd" ->
              IF c = ">" THEN [st EXCEPT !.mode = "text"] ELSE Bad(st)
         [] st.mode = "pi" ->
              IF c = "?" THEN [st EXCEPT !.mode = "piEnd"] ELSE st
         [] st.mode = "piEnd" ->
              IF c = ">" THEN [st EXCEPT !.mode = "text"]
              ELSE IF c = "?" THEN st
              ELSE [st EXCEPT !.mode = "pi"]
         [] st.mode = "decl" ->
              IF c = "?" THEN [st EXCEPT !.mode = "declEnd"]
              ELSE [st EXCEPT !.body = Append(@, c)]
         [] st.mode = "declEnd" ->
              IF c = ">" /\ DeclOk(st.body)
              THEN [st EXCEPT !.mode = "text", !.body = <<>>]
              ELSE Bad(st)
         [] st.mode = "open" ->
              IF c \in NameChars THEN [st EXCEPT !.tag = Append(@, c)]
              ELSE IF c \in Whitespace THEN [st EXCEPT !.mode = "openS"]
              ELSE IF c = ">"
              THEN [st EXCEPT !.mode = "text", !.stack = Append(@, st.tag),
                              !.attrs = {}]
              ELSE IF c = "/" THEN [st EXCEPT !.mode = "empty"]
              ELSE Bad(st)
         [] st.mode = "openS" ->
              IF c \in Whitespace THEN st
              ELSE IF c \in Letters
              THEN [st EXCEPT !.mode = "attr", !.name = <<c>>]
              ELSE IF c = ">"
              THEN [st EXCEPT !.mode = "text",
                              !.stack = Append(@, st.tag), !.attrs = {}]
              ELSE IF c = "/" THEN [st EXCEPT !.mode = "empty"]
              ELSE Bad(st)
         [] st.mode = "attr" ->
              IF c \in NameChars THEN [st EXCEPT !.name = Append(@, c)]
              ELSE IF st.name \in st.attrs THEN Bad(st)
              ELSE IF c \in Whitespace
              THEN [st EXCEPT !.mode = "attrS", !.attrs = @ \cup {st.name}]
              ELSE IF c = "="
              THEN [st EXCEPT !.mode = "eq", !.attrs = @ \cup {st.name}]
              ELSE Bad(st)
         [] st.mode = "attrS" ->
              IF c \in Whitespace THEN st
              ELSE IF c = "=" THEN [st EXCEPT !.mode = "eq"]
              ELSE Bad(st)
         [] st.mode = "eq" ->
              IF c \in Whitespace THEN st
              ELSE IF c = "\"" THEN [st EXCEPT !.mode = "value"]
              ELSE Bad(st)
         [] st.mode = "value" ->
              IF c = "\"" THEN [st EXCEPT !.mode = "valueEnd"]
              ELSE IF c = "<" THEN Bad(st)
              ELSE st
         [] st.mode = "valueEnd" ->
              IF c \in Whitespace THEN [st EXCEPT !.mode = "openS"]
              ELSE IF c = ">"
              THEN [st EXCEPT !.mode = "text",
                              !.stack = Append(@, st.tag), !.attrs = {}]
              ELSE IF c = "/" THEN [st EXCEPT !.mode = "empty"]
              ELSE Bad(st)
         [] st.mode = "empty" ->
              IF c = ">" THEN Closed(st, st.stack) ELSE Bad(st)
         [] st.mode = "close" ->
              IF c \in NameChars THEN [st EXCEPT !.name = Append(@, c)]
              ELSE IF st.name # st.stack[Len(st.stack)] THEN Bad(st)
              ELSE IF c \in Whitespace THEN [st EXCEPT !.mode = "closeS"]
              ELSE IF c = ">"
              THEN Closed(st, SubSeq(st.stack, 1, Len(st.stack) - 1))
              ELSE Bad(st)
         [] st.mode = "closeS" ->
              IF c \in Whitespace THEN st
              ELSE IF c = ">"
              THEN Closed(st, SubSeq(st.stack, 1, Len(st.stack) - 1))
              ELSE Bad(st)

RECURSIVE Scan(_, _, _)
Scan(st, s, i) ==
    IF i > Len(s) THEN st
    ELSE Scan([ScanChar(st, s[i]) EXCEPT !.pos = i], s, i + 1)

\* ET.fromstring(text): the root of the one element text holds, ParseError
\* when text is no document.  The root is kept as the text of its element.
fromstring(s) ==
    LET st == Scan(Scan0, s, 1)
    IN  IF ~st.bad /\ st.mode = "text" /\ st.stack = <<>> /\ st.roots = 1
        THEN [exc |-> None, root |-> xml_lstrip(xml_rstrip(s))]
        ELSE [exc |-> "ParseError", root |-> <<>>]

\* '\n'.join(lines)
RECURSIVE join_lines(_)
join_lines(lines) ==
    IF lines = <<>> THEN <<>>
    ELSE IF Len(lines) = 1 THEN lines[1]
    ELSE lines[1] \o <<"\n">> \o join_lines(Tail(lines))

\* _buffer_update: the first piece of the chunk continues the last line
buffer_update(buf, chunk) ==
    LET d    == split(chunk, "\n")
        buf1 == IF buf = <<>> THEN << <<>> >> ELSE buf
    IN  [buf1 EXCEPT ![Len(buf1)] = @ \o d[1]] \o Tail(d)

\* _buffer_parse from line i on, with n lines consumed and the roots
\* yielded so far: [buf, roots] when the generator is exhausted
RECURSIVE buffer_parse_from(_, _, _, _)
buffer_parse_from(buf, i, n, roots) ==
    IF i > Len(buf)
    THEN [buf |-> SubSeq(buf, n + 1, Len(buf)), roots |-> roots]
    ELSE LET root == fromstring(join_lines(SubSeq(buf, n + 1, i)))
         IN  IF root.exc = None
             THEN buffer_parse_from(buf, i + 1, i, Append(roots, root.root))
             ELSE buffer_parse_from(buf, i + 1, n, roots)

buffer_parse(buf) == buffer_parse_from(buf, 1, 0, <<>>)

\* the documents a client sends: an empty element, an element over two
\* lines, a tag broken over two lines, an attribute value with a newline
\* in it, an element with a child and an empty line, and an element after
\* an XML declaration
Documents ==
    { <<"<", "a", "/", ">">>,
      <<"<", "a", ">", "\n", "<", "/", "a", ">">>,
      <<"<", "a", "\n", "b", "=", "\"", "x", "\"", "/", ">">>,
      <<"<", "b", " ", "a", "=", "\"", "\n", "\"", ">", "x", "<", "/", "b", ">">>,
      <<"<", "a", ">", "<", "b", "/", ">", "\n", "\n", "<", "/", "a", ">">>,
      <<"<", "?", "x", "m", "l", " ", "v", "e", "r", "s", "i", "o", "n", "=",
        "\"", "1", ".", "0", "\"", "?", ">", "\n", "<", "a", "/", ">">> }

\* the client's stream: each document on lines of its own, newline at its end
RECURSIVE StreamOf(_)
StreamOf(sent) ==
    IF sent = <<>> THEN <<>>
    ELSE Head(sent) \o <<"\n">> \o StreamOf(Tail(sent))

FramingInit ==
    /\ CoreInit
    /\ ParseIdle
    /\ DecodeIdle
    /\ IndiIdle
    /\ docs \in UNION { [1..n -> Documents] : n \in 1..MaxDocs }
    /\ stream = StreamOf(docs)
    /\ readbuf = <<>>
    /\ delivered = <<>>

\* one pass of the loop for the connection: recv returns a chunk, which is
\* some non-empty head of what the client has sent
loop_recv ==
    /\ stream # <<>>
    /\ \E k \in 1..Len(stream) :
          /\ k <= BUFFER_SIZE
          /\ LET chunk  == SubSeq(stream, 1, k)
                 parsed_ == buffer_parse(buffer_update(readbuf, chunk))
             IN  /\ readbuf' = parsed_.buf
                 /\ delivered' = delivered \o parsed_.roots
          /\ stream' = SubSeq(stream, k + 1, Len(stream))
    /\ UNCHANGED <<coreVars, parseVars, decodeVars, indiVars, docs>>

SpecFraming == FramingInit /\ [][loop_recv]_vars


(***************************************************************************)
(* Helpers of the properties.                                              *)
(***************************************************************************)
LocationError == Raised("ValueError", "bad usb port location, port not found")
HubNeverEnumerated ==
    Raised("ValueError", "cannot talk to device's hub, usb hub never enumerated")

\* text parses to a location that no entry of data has
AbsentFrom(data, location_text) ==
    /\ parse_location(location_text).exc = None
    /\ \A i \in 1..Len(data) :
          data[i].location # parse_location(location_text).value

\* text parses to the location of an entry of data
PresentIn(data, location_text) ==
    /\ parse_location(location_text).exc = None
    /\ \E i \in 1..Len(data) :
          data[i].location = parse_location(location_text).value

\* the entries of data at the location of text without its last port number
ParentsIn(data, location_text) ==
    LET location == parse_location(location_text).value
    IN  { i \in 1..Len(data) :
            data[i].location = SubSeq(location, 1, Len(location) - 1) }

\* the control nodes of the hubs among the entries of data
HubFiles(data) ==
    { usb_filename(data[i].dev) :
        i \in { j \in 1..Len(data) :
                  "is_hub" \in DOMAIN data[j] /\ data[j].is_hub } }

\* the entries of data directly under the entry i
ChildrenOf(data, i) ==
    { j \in 1..Len(data) :
        /\ Len(data[j].location) = Len(data[i].location) + 1
        /\ SubSeq(data[j].location, 1, Len(data[i].location)) = data[i].location }

LastOf(location) == location[Len(location)]

\* the call in progress takes the step in which it first reads its location
LookupStep(fn) == pc = "listed" /\ call.fn = fn /\ pc' # "listed"

C2_HubFailureIsolated ==
    pc = "done" =>
        result.msg \notin {"update_hubs: open", "update_hubs: port status"}

(***************************************************************************)
(* C3.                                                                     *)
(***************************************************************************)
\* C3: when list_usbports has returned, every hub whose descriptor read
\* returned N has directly under it exactly N entries, with the port
\* numbers 1..N, each with status flags; those that update_hubs added (no
\* device was enumerated there) are ghosts: location, flags, perhaps the
\* name of a serial port, and no device.
C3_HubChildrenExact ==
    pc = "listed" =>
        \A i \in 1..Len(ports) :
            "numports" \in DOMAIN ports[i] =>
                LET kids == ChildrenOf(ports, i)
                IN  /\ { LastOf(ports[j].location) : j \in kids }
                          = 1..ports[i].numports
                    /\ Cardinality(kids) = ports[i].numports
                    /\ \A j \in kids :
                          /\ "port_status" \in DOMAIN ports[j]
                          /\ j > nsnap <=> "dev" \notin DOMAIN ports[j]
                          /\ j > nsnap =>
                                DOMAIN ports[j] \subseteq
                                    {"location", "port_status", "name"}

\* a hub with at least two ports, one of them with an enumerated device and
\* all the others ghosts
C3_Witness ==
    /\ pc = "listed"
    /\ \E i \in 1..Len(ports) :
          /\ "numports" \in DOMAIN ports[i]
          /\ ports[i].numports >= 2
          /\ Cardinality({ j \in ChildrenOf(ports, i) : "dev" \in DOMAIN ports[j] }) = 1
          /\ Cardinality({ j \in ChildrenOf(ports, i) : "dev" \notin DOMAIN ports[j] })
                = ports[i].numports - 1

(***************************************************************************)
(* C4.                                                                     *)
(***************************************************************************)
\* C4: no failure of a string-descriptor read stops the enumeration: no call
\* ends with such a failure raised out of list_usbports.
C4_StringFailureNeverAborts ==
    pc = "done" => result.msg # "list_usbports: string descriptor"

(***************************************************************************)
(* C5.                                                                     *)
(***************************************************************************)
\* C5: at most one control node is open at any moment, one is open only
\* inside a with block, and none is open when a call has returned or raised.
C5_HandlesScoped ==
    /\ Cardinality(fds) <= 1
    /\ fds # {} => pc \in {"hub_fd", "hub_ports", "reset_fd", "feature_fd"}
    /\ pc \in {"idle", "done"} => fds = {}

\* a call that raised from inside a with block, after the open
C5_Witness ==
    /\ pc = "done"
    /\ result.msg \in {"update_hubs: port status", "soft_reset: ioctl",
                       "set_feature: ioctl"}
    /\ opened # {}
    /\ fds = {}

IsDigits(s) == s # <<>> /\ \A i \in 1..Len(s) : s[i] \in Digits

\* <port:int> ( . <port:int> )*
RECURSIVE IsPortPath(_)
IsPortPath(s) ==
    \/ IsDigits(s)
    \/ \E i \in 2..(Len(s) - 1) :
          /\ s[i] = "."
          /\ IsDigits(SubSeq(s, 1, i - 1))
          /\ IsPortPath(SubSeq(s, i + 1, Len(s)))

RECURSIVE PortPathValue(_)
PortPathValue(s) ==
    IF IsDigits(s) THEN <<digits_val(s)>>
    ELSE LET i == IndexOf(s, ".")
         IN  <<digits_val(SubSeq(s, 1, i - 1))>>
             \o PortPathValue(SubSeq(s, i + 1, Len(s)))

\* the text without its [ : <suffix> ]
GrammarBody(s) ==
    IF IndexOf(s, ":") = 0 THEN s ELSE SubSeq(s, 1, IndexOf(s, ":") - 1)

\* <bus:int>[ - <port:int> ( . <port:int> )* ][ : <suffix> ]
InGrammar(s) ==
    LET b == GrammarBody(s)
        i == IndexOf(b, "-")
    IN  IF i = 0 THEN IsDigits(b)
        ELSE IsDigits(SubSeq(b, 1, i - 1)) /\ IsPortPath(SubSeq(b, i + 1, Len(b)))

GrammarLocation(s) ==
    LET b == GrammarBody(s)
        i == IndexOf(b, "-")
    IN  IF i = 0 THEN <<digits_val(b)>>
        ELSE <<digits_val(SubSeq(b, 1, i - 1))>>
             \o PortPathValue(SubSeq(b, i + 1, Len(b)))

\* C7: parse_location accepts every text of the location grammar and returns
\* the bus followed by the port numbers in order, the suffix ignored; for a
\* bus alone it returns the root location, the bus with no port numbers.
C7_ParseAcceptsGrammar ==
    (parsed # NotParsed /\ InGrammar(text))
        => parsed = [exc |-> None, value |-> GrammarLocation(text)]

(***************************************************************************)
(* C8.                                                                     *)
(***************************************************************************)
Bit(w, k) == (w \div (2 ^ k)) % 2 = 1
FlagSet == { flags[i] : i \in 1..Len(flags) }

DecodesBitwise ==
    /\ FlagSet \subseteq {"P", "C", "E", "S", "R"}
    /\ "P" \in FlagSet <=> Bit(word, IF level <= 2 THEN 8 ELSE 9)
    /\ "C" \in FlagSet <=> Bit(word, 0)
    /\ "E" \in FlagSet <=> Bit(word, 1)
    /\ "S" \in FlagSet <=> Bit(word, 2)
    /\ "R" \in FlagSet <=> Bit(word, 4)

\* C8 as stated: the flags follow the bits, 0x0103 at usb_level 2 decodes
\* to exactly {Power, Connection, Enable}, and 0x0201 at usb_level 3 decodes
\* to exactly {Power}.
C8_DecodeAsStated ==
    flags # NotDecoded =>
        /\ DecodesBitwise
        /\ (word = 259 /\ level = 2) => FlagSet = {"P", "C", "E"}
        /\ (word = 513 /\ level = 3) => FlagSet = {"P"}

\* C8, amended: the flags follow the bits, 0x0103 at usb_level 2 decodes to
\* exactly {Power, Connection, Enable}, and 0x0201 at usb_level 3 decodes to
\* exactly {Power, Connection}: Power from bit 9, Connection from bit 0.
C8_DecodeMatchesBits ==
    flags # NotDecoded =>
        /\ DecodesBitwise
        /\ (word = 259 /\ level = 2) => FlagSet = {"P", "C", "E"}
        /\ (word = 513 /\ level = 3) => FlagSet = {"P", "C"}

C8_Witness == flags # NotDecoded /\ word = 513 /\ level = 3 /\ "P" \in FlagSet

(***************************************************************************)
(* C9.                                                                     *)
(***************************************************************************)
\* C9: at every point of a discovery pass no two entries of ports have the
\* same location, and the entries with a device are the enumerated ones,
\* each with its own device at that device's location.
C9_LocationsUnique ==
    /\ \A i, j \in 1..Len(ports) :
          ports[i].location = ports[j].location => i = j
    /\ \A i, j \in 1..Len(ports) :
          ("dev" \in DOMAIN ports[i] /\ "dev" \in DOMAIN ports[j]
             /\ ports[i].dev = ports[j].dev) => i = j
    /\ \A i \in 1..Len(ports) :
          "dev" \in DOMAIN ports[i] =>
              ports[i].location = DevLocation(ports[i].dev)

\* both hubs of bus 1 expanded, the inner one first, with a ghost and with
\* an enumerated child that took its status from its hub
C9_Witness ==
    /\ pc = "listed"
    /\ Len(ports) >= 3
    /\ ports[1].location = <<1, 1>>
    /\ ports[2].location = <<1>>
    /\ "numports" \in DOMAIN ports[1]
    /\ "numports" \in DOMAIN ports[2]
    /\ "port_status" \in DOMAIN ports[1]
    /\ \E j \in 3..Len(ports) : "dev" \notin DOMAIN ports[j]


(***************************************************************************)
(* C10: helpers.  The write the loop handled last, as the client put it,   *)
(* and what the client can see of the property afterwards.                 *)
(***************************************************************************)
WriteHandled == handled.event = "write" /\ indi.phase \notin {"control", "refresh"}

InvalidWrite ==
    \/ handled.fields > 1
    \/ handled.fields = 1 /\ ~handled.command
    \/ handled.control = "raised"

Alerted == indi.state = "Alert" /\ indi.message \notin {None, "unset", ""}

Republished ==
    /\ Len(published) = 2
    /\ published[1].doc.tag = "defTextVector"
    /\ published[1].doc.state = indi.state
    /\ published[1].doc.values = indi.values
    /\ published[2].doc = [tag |-> "setTextVector", state |-> indi.state,
                           message |-> indi.message, values |-> indi.values]
    /\ \A k \in 1..2 : published[k].to = socklist

ConnectionKept ==
    /\ indi.phase = "serving"
    /\ socklist # <<>>
    /\ socklist = handled.socks

Arrived == Len(StreamOf(docs)) - Len(stream)

\* the position in the client's text of the last character of document k
RECURSIVE EndOf(_)
EndOf(k) ==
    IF k = 0 THEN 0
    ELSE IF k = 1 THEN Len(docs[1])
    ELSE EndOf(k - 1) + 1 + Len(docs[k])

\* the text that has arrived after the last document handed to on_message
Rest == SubSeq(StreamOf(docs), EndOf(Len(delivered)) + 1, Arrived)

(***************************************************************************)
(* C11.  INDI framing: for every stream of newline-terminated XML          *)
(* documents, each starting on a line of its own, and every way of cutting *)
(* it into chunks: the documents handed to on_message are the documents    *)
(* sent, in their order and each once, all of them once the stream is      *)
(* through; and after a chunk is processed the read buffer holds the lines *)
(* that arrived after the last document handed over and nothing else (the  *)
(* end of that document's own last line, which is empty, may be among      *)
(* them).                                                                  *)
(***************************************************************************)
C11_FramingDeliversEachOnce ==
    /\ Len(delivered) <= Len(docs)
    /\ delivered = SubSeq(docs, 1, Len(delivered))
    /\ stream = <<>> /\ docs # <<>> => delivered = docs
    /\ IF readbuf = <<>> THEN Rest = <<>>
       ELSE \/ join_lines(readbuf) = Rest
            \/ /\ Rest # <<>>
               /\ delivered # <<>>
               /\ Head(Rest) = "\n"
               /\ join_lines(readbuf) = Tail(Rest)

====
